---- MODULE Spec2Model ----
(***************************************************************************)
(* load_data.py: DataSplitter (stratified three-way split written to three *)
(* manifests) and ImageDataset (a lazily decoded dataset read back from a  *)
(* manifest).                                                              *)
(*                                                                         *)
(* Four specifications share this module:                                  *)
(*   SpecSplit  DataSplitter.__init__ (load_files + create_dataset) on a   *)
(*              root directory given by its per-class file counts;         *)
(*   Spec       save_file_paths / ImageDataset.__init__ / __len__ /        *)
(*              __getitem__ on manifests given character by character;     *)
(*   SpecConc   __getitem__ run line by line by two threads that share one *)
(*              dataset instance;                                          *)
(*   SpecLine   the line parser of ImageDataset.__init__ on one line.       *)
(* A specification leaves the variables of the others at their initial     *)
(* value.                                                                  *)
(***************************************************************************)
EXTENDS Integers, Sequences, FiniteSets, TLC

\* Bounds of the model.
MaxPerClass == 10
MaxValidation == 11
MaxTest == 14
MaxChars == 2
MaxConcChars == 1
MaxSamples == 2
MaxLineLen == 6

\* The sub-directories of the root directory (the class labels).
Classes == {"c1", "c2", "c3"}

training_file == "train_set.txt"
validation_file == "validation_set.txt"
test_file == "test_set.txt"
ManifestNames == {training_file, validation_file, test_file}
NoFile == [exists |-> FALSE]

\* The characters of paths, labels and manifests: "a" and "b" stand for any
\* two characters that are no whitespace.
Chars == {"a", "b", " ", "\t", "\n"}
Whitespace == {" ", "\t", "\n"}
\* The threads that call __getitem__ on one dataset instance.
Threads == {"t1", "t2"}

VARIABLES
    root,             \* SpecSplit: number of regular files in each sub-directory of root_dir
    validation_size,  \* SpecSplit: DataSplitter.validation_size
    test_size,        \* SpecSplit: DataSplitter.test_size
    splitter,         \* SpecSplit: "none", "constructed" or "ValueError"
    disk,             \* SpecSplit: manifest name -> number of lines per label, or NoFile
    samples,          \* Spec: the caller's sample list, <<path, label>> pairs
    file_path,        \* Spec: the manifest path the caller persists to
    files,            \* Spec: manifest name -> its characters, or NoFile
    saved,            \* Spec: save_file_paths has returned
    ds,               \* Spec: the ImageDataset instance
    ret,              \* Spec: what the last __len__ / __getitem__ call returned or raised
    th,               \* SpecConc: per thread, where it is in __getitem__
    line,             \* SpecLine: one line of a manifest
    parsed            \* SpecLine: what lines 24-26 make of it

splitVars == <<root, validation_size, test_size, splitter, disk>>
dataVars == <<samples, file_path, files, saved, ds, ret>>
lineVars == <<line, parsed>>
vars == <<splitVars, dataVars, th, lineVars>>

Min2(a, b) == IF a < b THEN a ELSE b

RECURSIVE SumOver(_, _)
SumOver(f, S) == IF S = {} THEN 0
                 ELSE LET c == CHOOSE x \in S : TRUE IN f[c] + SumOver(f, S \ {c})
\* len(labels) of a label list given by its per-class counts
Total(cc) == SumOver(cc, DOMAIN cc)

(***************************************************************************)
(* IEEE-754 double arithmetic of line 115 and of sklearn's                 *)
(*     n_test = ceil(test_size * n_samples)                                *)
(* A double in [2^-k, 2^(1-k)) is kept as <<limbs, k>>: the 52 fraction    *)
(* bits of its significand as four limbs of 13 bits, most significant      *)
(* first, under an implicit leading one:                                   *)
(*     value = (2^52 + limbs) * 2^-(k+52).                                 *)
(* Exact for operands below 4096.                                          *)
(***************************************************************************)
LimbBase == 8192

RECURSIVE Pow2(_)
Pow2(k) == IF k = 0 THEN 1 ELSE 2 * Pow2(k - 1)
RECURSIVE BitLen(_)
BitLen(n) == IF n = 0 THEN 0 ELSE 1 + BitLen(n \div 2)

\* limbs + 1 from limb i upwards, as <<limbs, carry out>>
RECURSIVE IncLimbs(_, _)
IncLimbs(l, i) ==
    IF i = 0 THEN <<l, 1>>
    ELSE IF l[i] + 1 < LimbBase THEN <<[l EXCEPT ![i] = l[i] + 1], 0>>
         ELSE IncLimbs([l EXCEPT ![i] = 0], i - 1)

\* the least k with num * 2^k >= den
RECURSIVE Normalise(_, _, _)
Normalise(r, den, k) == IF r >= den THEN <<r, k>> ELSE Normalise(2 * r, den, k + 1)

\* long division: the fraction limbs and the remainder left after them
RECURSIVE DivLimbs(_, _, _)
DivLimbs(l, r, den) ==
    IF Len(l) = 4 THEN <<l, r>>
    ELSE DivLimbs(Append(l, (r * LimbBase) \div den), (r * LimbBase) % den, den)

\* num / den for 0 < num <= den (Python and numpy true division: correctly rounded, to
\* nearest, ties to even)
FloatDiv(num, den) ==
    LET nk == Normalise(num, den, 0)
        d == DivLimbs(<<>>, nk[1] - den, den)
        l == d[1]
        r == d[2]
        up == 2 * r > den \/ (2 * r = den /\ l[Len(l)] % 2 = 1)
        inc == IncLimbs(l, Len(l))
    IN IF up THEN <<inc[1], nk[2] - inc[2]>> ELSE <<l, nk[2]>>

\* limbs * m, as <<limbs, carry out>>
RECURSIVE MulLimbs(_, _, _, _)
MulLimbs(l, m, i, c) ==
    IF i = 0 THEN <<l, c>>
    ELSE LET s == l[i] * m + c
         IN MulLimbs([l EXCEPT ![i] = s % LimbBase], m, i - 1, s \div LimbBase)

\* x * m for the double x = <<limbs, k>> and the integer m >= 1, as
\* <<T, limbs, k>> with value = (T * 2^52 + limbs) * 2^-(k+52): the exact
\* product is rounded to 53 significant bits (its L lowest bits go)
FloatMul(x, m) ==
    LET p == MulLimbs(x[1], m, Len(x[1]), 0)
        out == p[1]
        n == Len(out)
        T == m + p[2]
        L == BitLen(T) - 1
        unit == Pow2(L)
        low == out[n] % unit
        up == L > 0 /\ (2 * low > unit
                        \/ (2 * low = unit /\ (out[n] \div unit) % 2 = 1))
        cut == [out EXCEPT ![n] = out[n] - low]
        r == IF ~up THEN <<cut, 0>>
             ELSE IF cut[n] + unit < LimbBase
                  THEN <<[cut EXCEPT ![n] = cut[n] + unit], 0>>
                  ELSE IncLimbs([cut EXCEPT ![n] = 0], n - 1)
    IN <<T + r[2], r[1], x[2]>>

\* 0.0 as a product
FloatZero == <<0, <<0, 0, 0, 0>>, 0>>

\* math.floor / np.floor of a product
FloatFloor(y) == y[1] \div Pow2(y[3])

\* y - floor(y), exact in doubles: its bits after the binary point, as five
\* limbs (k <= 13)
FloatFrac(y) ==
    MulLimbs(<<y[1] % Pow2(y[3])>> \o y[2], Pow2(13 - y[3]), 5, 0)[1]

IsZero(limbs) == \A i \in 1..Len(limbs) : limbs[i] = 0

\* math.ceil of a product
FloatCeil(y) == FloatFloor(y) + (IF IsZero(FloatFrac(y)) THEN 0 ELSE 1)

\* a > b for two fractions of five limbs
RECURSIVE LimbsGreater(_, _, _)
LimbsGreater(a, b, i) ==
    IF i > Len(a) THEN FALSE
    ELSE IF a[i] # b[i] THEN a[i] > b[i]
    ELSE LimbsGreater(a, b, i + 1)

\* ceil((num / den) * n_samples) in doubles, 0 < num < den
NTest(num, den, n_samples) == FloatCeil(FloatMul(FloatDiv(num, den), n_samples))

(***************************************************************************)
(* sklearn.model_selection.train_test_split(files, labels, test_size=...,  *)
(* stratify=labels, random_state=42), as called on lines 114 and 115.      *)
(* The split treats the samples of one class alike, so a label list is     *)
(* kept as its per-class counts and a split as the counts it puts in each  *)
(* part. What the seeded generator decides (ties between classes) is a     *)
(* nondeterministic choice: an operator returns the set of its outcomes.   *)
(***************************************************************************)
Raises == [ok |-> FALSE]

\* _validate_shuffle_split with an int test_size and train_size=None
ValidateShuffleSplitInt(n_samples, size) ==
    IF size >= n_samples \/ size <= 0 THEN Raises
    ELSE IF n_samples - size = 0 THEN Raises
    ELSE [ok |-> TRUE, n_train |-> n_samples - size, n_test |-> size]

\* _validate_shuffle_split with the float test_size num / den; the quotient
\* of integers below 2^53 is 0.0 only if num = 0 and reaches 1.0 only if
\* num >= den
ValidateShuffleSplitFloat(n_samples, num, den) ==
    IF num <= 0 \/ num >= den THEN Raises
    ELSE LET n_test == NTest(num, den, n_samples)
         IN IF n_samples - n_test = 0 THEN Raises
            ELSE [ok |-> TRUE, n_train |-> n_samples - n_test, n_test |-> n_test]

\* _approximate_mode(class_counts, n_draws, rng), in numpy's doubles:
\*     continuous = class_counts / class_counts.sum() * n_draws
\*     floored = np.floor(continuous)
\* then one more for the classes of largest remainder = continuous - floored
\* until n_draws are given out; rng.choice draws among classes whose
\* remainders are equal, a nondeterministic choice here.
Continuous(class_counts, n_draws) ==
    [c \in DOMAIN class_counts |->
        IF class_counts[c] = 0 THEN FloatZero
        ELSE FloatMul(FloatDiv(class_counts[c], Total(class_counts)), n_draws)]

RECURSIVE AddByRemainder(_, _, _, _)
AddByRemainder(floored, remainder, need_to_add, values) ==
    IF need_to_add <= 0 \/ values = {} THEN {floored}
    ELSE LET value == CHOOSE v \in values : \A w \in values : ~LimbsGreater(w, v, 1)
             inds == {c \in DOMAIN remainder : remainder[c] = value}
             add_now == Min2(Cardinality(inds), need_to_add)
         IN UNION { AddByRemainder(
                        [c \in DOMAIN floored |->
                            IF c \in chosen THEN floored[c] + 1 ELSE floored[c]],
                        remainder, need_to_add - add_now, values \ {value})
                    : chosen \in {S \in SUBSET inds : Cardinality(S) = add_now} }

\* mutant: every leftover sample goes to one class of largest remainder
ApproximateModeOneClass(class_counts, n_draws) ==
    LET continuous == Continuous(class_counts, n_draws)
        floored == [c \in DOMAIN class_counts |-> FloatFloor(continuous[c])]
        remainder == [c \in DOMAIN class_counts |-> FloatFrac(continuous[c])]
        need_to_add == n_draws - Total(floored)
    IN { [c \in DOMAIN class_counts |->
             IF c = first THEN floored[c] + need_to_add ELSE floored[c]]
         : first \in {c \in DOMAIN class_counts :
                         \A d \in DOMAIN class_counts :
                             ~LimbsGreater(remainder[d], remainder[c], 1)} }

ApproximateMode(class_counts, n_draws) ==
    LET continuous == Continuous(class_counts, n_draws)
        floored == [c \in DOMAIN class_counts |-> FloatFloor(continuous[c])]
        remainder == [c \in DOMAIN class_counts |-> FloatFrac(continuous[c])]
    IN AddByRemainder(floored, remainder, n_draws - Total(floored),
                      {remainder[c] : c \in DOMAIN class_counts})

\* mutant: the check of the least populated class is missing
StratifiedShuffleSplitNoMinimum(y, n_train, n_test) ==
    LET classes == {c \in Classes : y[c] > 0}
        class_counts == [c \in classes |-> y[c]]
    IN IF n_train < Cardinality(classes) \/ n_test < Cardinality(classes) THEN {}
       ELSE UNION { { [train |-> [c \in Classes |-> IF c \in classes THEN n_i[c] ELSE 0],
                       test |-> [c \in Classes |-> IF c \in classes THEN t_i[c] ELSE 0]]
                      : t_i \in ApproximateMode([c \in classes |-> class_counts[c] - n_i[c]],
                                                n_test) }
                    : n_i \in ApproximateMode(class_counts, n_train) }

\* StratifiedShuffleSplit._iter_indices: y is the label list as counts over
\* Classes; the outcomes are {} when it raises ValueError
StratifiedShuffleSplit(y, n_train, n_test) ==
    LET classes == {c \in Classes : y[c] > 0}
        class_counts == [c \in classes |-> y[c]]
    IN IF \E c \in classes : class_counts[c] < 2 THEN {}
       ELSE IF n_train < Cardinality(classes) \/ n_test < Cardinality(classes) THEN {}
       ELSE UNION { { [train |-> [c \in Classes |-> IF c \in classes THEN n_i[c] ELSE 0],
                       test |-> [c \in Classes |-> IF c \in classes THEN t_i[c] ELSE 0]]
                      : t_i \in ApproximateMode([c \in classes |-> class_counts[c] - n_i[c]],
                                                n_test) }
                    : n_i \in ApproximateMode(class_counts, n_train) }

TrainTestSplit(y, sizes) ==
    IF sizes.ok THEN StratifiedShuffleSplit(y, sizes.n_train, sizes.n_test) ELSE {}

\* load_files: one (file, label) pair per regular file of each sub-directory
LoadFiles(dir) == [c \in Classes |-> dir[c]]

\* create_dataset, lines 114-115: the outcomes of the two splits; Raises when
\* either call raises
CreateDataset(labels, vsize, tsize) ==
    LET first == TrainTestSplit(labels, ValidateShuffleSplitInt(Total(labels), vsize + tsize))
    IN IF first = {} THEN {Raises}
       ELSE UNION { LET y_remaining == s1.test
                        second == TrainTestSplit(y_remaining,
                                      ValidateShuffleSplitFloat(Total(y_remaining),
                                                                tsize, vsize + tsize))
                    IN IF second = {} THEN {Raises}
                       ELSE { [ok |-> TRUE, y_train_temp |-> s1.train,
                               y_validation |-> s2.train, y_test |-> s2.test]
                              : s2 \in second }
                    : s1 \in first }

\* create_dataset, lines 117-119: the three manifests, one line per sample
SaveSplits(out) ==
    [f \in ManifestNames |->
        [exists |-> TRUE,
         lines |-> IF f = training_file THEN out.y_train_temp
                   ELSE IF f = validation_file THEN out.y_validation
                   ELSE out.y_test]]

\* the variables of the other specifications, at rest
NoSplit ==
    /\ root = [c \in Classes |-> 0] /\ validation_size = 0 /\ test_size = 0
    /\ splitter = "none" /\ disk = [f \in ManifestNames |-> NoFile]
NoData ==
    /\ samples = <<>> /\ file_path = training_file
    /\ files = [f \in ManifestNames |-> NoFile] /\ saved = FALSE
    /\ ds = [state |-> "none"] /\ ret = [kind |-> "none"]
NoThreads == th = [t \in Threads |-> [pc |-> "idle"]]
NoLine == line = <<>> /\ parsed = [kind |-> "none"]

InitSplit ==
    /\ root \in [Classes -> 0..MaxPerClass]
    /\ validation_size \in 0..MaxValidation
    /\ test_size \in 0..MaxTest
    /\ splitter = "none"
    /\ disk = [f \in ManifestNames |-> NoFile]
    /\ NoData /\ NoThreads /\ NoLine

\* DataSplitter(root_dir): load_files, then create_dataset; the three
\* manifests are written, or train_test_split raises and nothing is
DataSplitter ==
    /\ splitter = "none"
    /\ \E out \in CreateDataset(LoadFiles(root), validation_size, test_size) :
         IF out.ok
         THEN splitter' = "constructed" /\ disk' = SaveSplits(out)
         ELSE splitter' = "ValueError" /\ disk' = disk
    /\ UNCHANGED <<root, validation_size, test_size, dataVars, th, lineVars>>

NextSplit == DataSplitter

SpecSplit == InitSplit /\ [][NextSplit]_vars

(***************************************************************************)
(* Claims about the split (SpecSplit)                                      *)
(***************************************************************************)
Abs(x) == IF x < 0 THEN -x ELSE x
NSamples == Total(root)
Counts(a, b, c) == [k \in Classes |-> IF k = "c1" THEN a ELSE IF k = "c2" THEN b ELSE c]
Written == \A f \in ManifestNames : disk[f] # NoFile
NothingWritten == \A f \in ManifestNames : disk[f] = NoFile
Lines(f) == disk[f].lines
\* every class of the root directory has a sample in every manifest
EveryClassEverywhere ==
    \A c \in Classes : root[c] > 0 => \A f \in ManifestNames : Lines(f)[c] >= 1

DeviationBelow(f, c, within) ==
    Abs(NSamples * Lines(f)[c] - root[c] * Total(Lines(f))) < within * NSamples
DeviationAtMost(f, c, within) ==
    Abs(NSamples * Lines(f)[c] - root[c] * Total(Lines(f))) <= within * NSamples

Failed == splitter = "ValueError" /\ NothingWritten

StringsUpTo(n) == UNION { [1..k -> Chars] : k \in 0..n }
Range(seq) == { seq[i] : i \in 1..Len(seq) }

RECURSIVE Concat(_)
Concat(seqs) == IF seqs = <<>> THEN <<>> ELSE Head(seqs) \o Concat(Tail(seqs))

\* str.split(sep): the fields between the separators, empty fields included
RECURSIVE SplitFrom(_, _, _, _)
SplitFrom(str, sep, i, field) ==
    IF i > Len(str) THEN <<field>>
    ELSE IF str[i] = sep THEN <<field>> \o SplitFrom(str, sep, i + 1, <<>>)
    ELSE SplitFrom(str, sep, i + 1, Append(field, str[i]))
Split(str, sep) == SplitFrom(str, sep, 1, <<>>)

\* str.split(sep, 1): mutant of Split that cuts at the first separator only
SplitOnce(str, sep) ==
    IF \E i \in 1..Len(str) : str[i] = sep
    THEN LET i == CHOOSE j \in 1..Len(str) :
                     str[j] = sep /\ \A h \in 1..(j - 1) : str[h] # sep
         IN <<SubSeq(str, 1, i - 1), SubSeq(str, i + 1, Len(str))>>
    ELSE <<str>>

\* str.rstrip() and str.strip()
RECURSIVE RStrip(_)
RStrip(str) ==
    IF str # <<>> /\ str[Len(str)] \in Whitespace
    THEN RStrip(SubSeq(str, 1, Len(str) - 1)) ELSE str
RECURSIVE LStrip(_)
LStrip(str) == IF str # <<>> /\ Head(str) \in Whitespace THEN LStrip(Tail(str)) ELSE str
Strip(str) == LStrip(RStrip(str))

\* "for line in file": the lines of a text file, each with its newline; the
\* last one may have none
RECURSIVE LinesFrom(_, _, _)
LinesFrom(content, i, current) ==
    IF i > Len(content) THEN (IF current = <<>> THEN <<>> ELSE <<current>>)
    ELSE IF content[i] = "\n"
         THEN <<Append(current, "\n")>> \o LinesFrom(content, i + 1, <<>>)
         ELSE LinesFrom(content, i + 1, Append(current, content[i]))
FileLines(content) == LinesFrom(content, 1, <<>>)

(***************************************************************************)
(* DataSplitter.save_file_paths                                            *)
(***************************************************************************)
\* zip(file_paths, labels) stops at the shorter list
SaveFilePaths(file_paths, labels) ==
    LET n == Min2(Len(file_paths), Len(labels))
    IN [exists |-> TRUE,
        content |-> Concat([i \in 1..n |-> file_paths[i] \o <<" ">> \o labels[i] \o <<"\n">>])]

(***************************************************************************)
(* ImageDataset                                                            *)
(***************************************************************************)
\* lines 24-26 without the IndexError: a line with no separator gets an
\* empty label (mutant of ParseLine)
ParseLineLenient(l) ==
    LET parts == Split(l, " ")
    IN IF Len(parts) < 2 THEN [kind |-> "ok", path |-> parts[1], label |-> <<>>]
       ELSE [kind |-> "ok", path |-> parts[1], label |-> Strip(parts[2])]

\* lines 24-26 with split(" ", 1) (mutant of ParseLine)
ParseLineFirstSpace(l) ==
    LET parts == SplitOnce(l, " ")
    IN IF Len(parts) < 2 THEN [kind |-> "IndexError"]
       ELSE [kind |-> "ok", path |-> parts[1], label |-> Strip(parts[2])]

\* lines 24-26: parts = line.split(" "); parts[0]; parts[1].strip()
ParseLine(l) ==
    LET parts == Split(l, " ")
    IN IF Len(parts) < 2 THEN [kind |-> "IndexError"]
       ELSE [kind |-> "ok", path |-> parts[1], label |-> Strip(parts[2])]

\* {class_name: idx for idx, class_name in enumerate(classes)}: a later idx
\* replaces an earlier one of the same class_name
DictFromEnumerate(classes) ==
    [c \in Range(classes) |->
        (CHOOSE i \in 1..Len(classes) :
            classes[i] = c /\ \A j \in 1..Len(classes) : classes[j] = c => j <= i) - 1]

\* list(set(label_list)): the distinct labels in the order the set yields
\* them, which the hash seed of the process decides
ListOfSet(label_list) ==
    LET S == Range(label_list)
    IN { order \in [1..Cardinality(S) -> S] : Range(order) = S }

\* convert_label_to_ix without the set (mutant)
ConvertLabelToIxNoSet(label_list) == { DictFromEnumerate(label_list) }

\* convert_label_to_ix: the dictionaries it can return
ConvertLabelToIx(label_list) ==
    { DictFromEnumerate(classes) : classes \in ListOfSet(label_list) }

NoInstance(state, manifest, after) ==
    [state |-> state, image_filenames |-> <<>>, labels |-> <<>>,
     class_to_idx |-> <<>>, manifest |-> manifest, after_save |-> after]

\* ImageDataset.__init__: the instances it can return for the manifest it
\* opens, or the exception that leaves no instance. manifest and after_save
\* are history: what was read, and whether save_file_paths had returned.
Construct(manifest, after) ==
    IF ~manifest.exists THEN { NoInstance("FileNotFoundError", manifest, after) }
    ELSE LET lines == FileLines(manifest.content)
             rows == [i \in 1..Len(lines) |-> ParseLine(lines[i])]
         IN IF \E i \in 1..Len(rows) : rows[i].kind = "IndexError"
            THEN { NoInstance("IndexError", manifest, after) }
            ELSE LET image_filenames == [i \in 1..Len(rows) |-> rows[i].path]
                     labels == [i \in 1..Len(rows) |-> rows[i].label]
                 IN { [state |-> "built", image_filenames |-> image_filenames,
                       labels |-> labels, class_to_idx |-> class_to_idx,
                       manifest |-> manifest, after_save |-> after]
                      : class_to_idx \in ConvertLabelToIx(labels) }

\* list[index] without the IndexError: the index wraps (mutant of ListIndex)
ListIndexWrapping(list, index) ==
    IF Len(list) = 0 THEN 0 ELSE (index % Len(list)) + 1

\* list[index]: the 1-based position that Python's index addresses, 0 when
\* it raises IndexError
ListIndex(list, index) ==
    IF 0 <= index /\ index < Len(list) THEN index + 1
    ELSE IF index < 0 /\ -Len(list) <= index THEN Len(list) + index + 1
    ELSE 0

\* __getitem__, lines 49-50: img_path = self.image_filenames[index], then
\* Image.open(img_path), which decodes or raises as the disk decides (decoded)
GetItemOpen(self, index, decoded) ==
    LET at == ListIndex(self.image_filenames, index)
    IN IF at = 0 THEN [kind |-> "IndexError", index |-> index, opened |-> <<>>]
       ELSE IF ~decoded
            THEN [kind |-> "OSError", index |-> index,
                  opened |-> <<self.image_filenames[at]>>]
            ELSE [kind |-> "image", index |-> index,
                  opened |-> <<self.image_filenames[at]>>]

\* lines 52-62 with self.labels[0] for self.labels[index] (mutant)
GetItemReturnFirstLabel(self, index, img) ==
    LET at == ListIndex(self.labels, index)
    IN [kind |-> "sample", index |-> index, opened |-> img.opened,
        image |-> img.opened[1],
        label |-> self.class_to_idx[self.labels[1]],
        filepath |-> self.image_filenames[at]]

\* __getitem__, lines 52-62: transform, label lookup, the sample returned
GetItemReturn(self, index, img) ==
    LET at == ListIndex(self.labels, index)
    IN [kind |-> "sample", index |-> index, opened |-> img.opened,
        image |-> img.opened[1],
        label |-> self.class_to_idx[self.labels[at]],
        filepath |-> self.image_filenames[at]]

\* __getitem__ as one call
GetItem(self, index, decoded) ==
    LET img == GetItemOpen(self, index, decoded)
    IN IF img.kind = "image" THEN GetItemReturn(self, index, img) ELSE img

\* __getitem__ that moves the sample it served to the front of the two
\* lists (mutant)
SelfAfterGetItemMoveToFront(self, index) ==
    LET at == ListIndex(self.labels, index)
    IN IF at = 0 THEN self
       ELSE [self EXCEPT
                !.labels = [@ EXCEPT ![1] = self.labels[at], ![at] = self.labels[1]],
                !.image_filenames = [@ EXCEPT ![1] = self.image_filenames[at],
                                              ![at] = self.image_filenames[1]]]

\* the instance after __getitem__(index): lines 49-62 assign no attribute
SelfAfterGetItem(self, index) == self

Indices == (-(MaxSamples + 1))..MaxSamples

\* the sample lists of at most MaxSamples samples and MaxChars characters
SampleSize(sm) == Len(sm[1]) + Len(sm[2])
SamplesWithin(budget) ==
    { sm \in StringsUpTo(budget) \X StringsUpTo(budget) : SampleSize(sm) <= budget }
RECURSIVE SampleLists(_, _)
SampleLists(n, budget) ==
    IF n = 0 THEN { <<>> }
    ELSE { <<>> } \cup UNION { { <<sm>> \o rest
                                 : rest \in SampleLists(n - 1, budget - SampleSize(sm)) }
                               : sm \in SamplesWithin(budget) }

Init ==
    /\ samples \in SampleLists(MaxSamples, MaxChars)
    /\ file_path \in ManifestNames
    /\ files = [f \in ManifestNames |-> NoFile]
    /\ saved = FALSE
    /\ ds = NoInstance("none", NoFile, FALSE)
    /\ ret = [kind |-> "none"]
    /\ NoSplit /\ NoThreads /\ NoLine

\* save_file_paths(file_paths, labels, file_path) on the caller's samples
Save ==
    /\ files' = [files EXCEPT ![file_path] =
                    SaveFilePaths([i \in 1..Len(samples) |-> samples[i][1]],
                                  [i \in 1..Len(samples) |-> samples[i][2]])]
    /\ saved' = TRUE
    /\ UNCHANGED <<samples, file_path, ds, ret, splitVars, th, lineVars>>

\* ImageDataset(root_dir, train, transform): whatever train says, the
\* constructor opens self.training_file
Load ==
    /\ ds.state # "built"
    /\ \E train \in BOOLEAN :
         ds' \in Construct(files[training_file], saved)
    /\ UNCHANGED <<samples, file_path, files, saved, ret, splitVars, th, lineVars>>

\* len(dataset)
DatasetLen ==
    /\ ds.state = "built"
    /\ ret' = [kind |-> "len", value |-> Len(ds.labels)]
    /\ UNCHANGED <<samples, file_path, files, saved, ds, splitVars, th, lineVars>>

\* dataset[index]
Get ==
    /\ ds.state = "built"
    /\ \E index \in Indices, decoded \in BOOLEAN :
         /\ ret' = GetItem(ds, index, decoded)
         /\ ds' = SelfAfterGetItem(ds, index)
    /\ UNCHANGED <<samples, file_path, files, saved, splitVars, th, lineVars>>

Next == Save \/ Load \/ DatasetLen \/ Get

Spec == Init /\ [][Next]_vars

(***************************************************************************)
(* SpecConc: two threads inside __getitem__ of one instance. A call is two *)
(* steps, the blocking Image.open (lines 49-50) and the rest (lines        *)
(* 52-62); the steps of the two threads interleave freely.                 *)
(***************************************************************************)
\* thread t enters __getitem__(index) and runs up to the end of Image.open
GetOpen(t) ==
    /\ ds.state = "built"
    /\ th[t].pc # "opened"
    /\ \E index \in Indices, decoded \in BOOLEAN :
         LET img == GetItemOpen(ds, index, decoded)
         IN th' = [th EXCEPT ![t] =
                      IF img.kind = "image"
                      THEN [pc |-> "opened", index |-> index, img |-> img]
                      ELSE [pc |-> "done", index |-> index, result |-> img]]
    /\ UNCHANGED <<dataVars, splitVars, lineVars>>

\* thread t runs lines 52-62 and returns the sample
GetReturn(t) ==
    /\ th[t].pc = "opened"
    /\ th' = [th EXCEPT ![t] = [pc |-> "done", index |-> th[t].index,
                                result |-> GetItemReturn(ds, th[t].index, th[t].img)]]
    /\ ds' = SelfAfterGetItem(ds, th[t].index)
    /\ UNCHANGED <<samples, file_path, files, saved, ret, splitVars, lineVars>>

NextConc ==
    \/ Save
    \/ Load
    \/ DatasetLen
    \/ \E t \in Threads : GetOpen(t)
    \/ \E t \in Threads : GetReturn(t)

InitConc ==
    /\ samples \in SampleLists(MaxSamples, MaxConcChars)
    /\ file_path \in ManifestNames
    /\ files = [f \in ManifestNames |-> NoFile]
    /\ saved = FALSE
    /\ ds = NoInstance("none", NoFile, FALSE)
    /\ ret = [kind |-> "none"]
    /\ NoSplit /\ NoThreads /\ NoLine

SpecConc == InitConc /\ [][NextConc]_vars

(***************************************************************************)
(* SpecLine: lines 24-26 on one manifest line.                             *)
(***************************************************************************)
\* what "for line in file" can yield: not empty, a newline only at the end
ManifestLines ==
    { l \in StringsUpTo(MaxLineLen) :
        l # <<>> /\ \A i \in 1..(Len(l) - 1) : l[i] # "\n" }

InitLine ==
    /\ line \in ManifestLines
    /\ parsed = [kind |-> "none"]
    /\ NoSplit /\ NoData /\ NoThreads

ReadLine ==
    /\ parsed.kind = "none"
    /\ parsed' = ParseLine(line)
    /\ UNCHANGED <<line, splitVars, dataVars, th>>

NextLine == ReadLine

SpecLine == InitLine /\ [][NextLine]_vars

(***************************************************************************)
(* Claims about the manifests and the dataset                              *)
(***************************************************************************)
HasSpace(l) == \E i \in 1..Len(l) : l[i] = " "
FirstSpaceAt(l) == CHOOSE i \in 1..Len(l) : l[i] = " " /\ \A j \in 1..(i - 1) : l[j] # " "
BeforeFirstSpace(l) == SubSeq(l, 1, FirstSpaceAt(l) - 1)
AfterFirstSpace(l) == SubSeq(l, FirstSpaceAt(l) + 1, Len(l))
\* the text between the first and the second space, or up to the end
SecondField(l) ==
    IF HasSpace(AfterFirstSpace(l)) THEN BeforeFirstSpace(AfterFirstSpace(l))
    ELSE AfterFirstSpace(l)
\* "images/a b.png label1": three different fields, two spaces
ExampleLine == <<"a", " ", "b", " ", "a", "b">>
ExampleParsed == parsed.path = <<"a">> /\ parsed.label = <<"b">>

Count(seq, x) == Cardinality({ i \in 1..Len(seq) : seq[i] = x })
IsPermutation(s, t) ==
    Len(s) = Len(t) /\ \A x \in Range(s) \cup Range(t) : Count(s, x) = Count(t, x)
DatasetPairs == [i \in 1..Len(ds.labels) |-> <<ds.image_filenames[i], ds.labels[i]>>]
Size == Len(ds.labels)
IsGetResult(r) == r.kind \in {"sample", "IndexError", "OSError"}

\* C2: a dataset constructed after the samples were persisted to the manifest
\* path has as many samples as were persisted, and its (path, label) pairs are
\* a permutation of them.
C2_RoundTrip ==
    (ds.state # "none" /\ ds.after_save) =>
        /\ ds.state = "built"
        /\ Size = Len(samples)
        /\ IsPermutation(DatasetPairs, samples)

C8_NoSeparatorRaises ==
    (ds.state # "none" /\ ds.manifest.exists
       /\ \E i \in 1..Len(FileLines(ds.manifest.content)) :
              ~HasSpace(FileLines(ds.manifest.content)[i])) =>
        /\ ds.state = "IndexError"
        /\ ds.image_filenames = <<>> /\ ds.labels = <<>> /\ ds.class_to_idx = <<>>

\* load has failed on a manifest whose first line is blank
C8_Witness ==
    /\ ds.state = "IndexError"
    /\ FileLines(ds.manifest.content)[1] = <<"\n">>

\* C9: class_to_idx maps the distinct labels of the dataset one-to-one onto
\* 0 .. num_classes - 1.
C9_LabelIndexBijection ==
    ds.state = "built" =>
        /\ DOMAIN ds.class_to_idx = Range(ds.labels)
        /\ { ds.class_to_idx[c] : c \in DOMAIN ds.class_to_idx }
               = 0..(Cardinality(Range(ds.labels)) - 1)
        /\ \A c, d \in DOMAIN ds.class_to_idx :
               ds.class_to_idx[c] = ds.class_to_idx[d] => c = d

\* a dataset with two classes
C9_Witness ==
    /\ ds.state = "built"
    /\ Cardinality(DOMAIN ds.class_to_idx) = 2

\* C10: once the instance is constructed no step changes it, whatever the
\* interleaving of the threads, and a call that has finished holds the result
\* the same call gives when run alone.
C10_GetLeavesInstanceAlone ==
    /\ [][ds.state = "built" => ds' = ds]_vars
    /\ [](\A t \in Threads :
             th[t].pc = "done" =>
                 th[t].result = GetItem(ds, th[t].index, th[t].result.kind # "OSError"))

\* one thread has returned a sample while the other waits inside Image.open
\* with another index
C10_Witness ==
    /\ th["t1"].pc = "opened"
    /\ th["t2"].pc = "done" /\ th["t2"].result.kind = "sample"
    /\ th["t1"].index # th["t2"].index
    /\ ret.kind = "len"

\* C7 as stated: the line is cut at its first space into path and label, the
\* label right-trimmed; the example line parses to its first two fields.
C7_CutAtFirstSpace ==
    parsed.kind = "ok" =>
        /\ parsed.path = BeforeFirstSpace(line)
        /\ parsed.label = RStrip(AfterFirstSpace(line))
        /\ line = ExampleLine => ExampleParsed

\* C7 as amended: the line is cut at every space; the path is the text
\* before the first space and the label the text between the first and the
\* second space (or the end of the line), trimmed of whitespace on both
\* sides; the example line parses to its first two fields.
C7_SecondFieldStripped ==
    parsed.kind = "ok" =>
        /\ parsed.path = BeforeFirstSpace(line)
        /\ parsed.label = Strip(SecondField(line))
        /\ line = ExampleLine => ExampleParsed

\* the example line has been parsed
C7_Witness ==
    /\ parsed.kind = "ok" /\ line = ExampleLine
    /\ ExampleParsed
====
